---- MODULE Spec2Model ----
(***************************************************************************)
(* Project CORAL: the live fetch with its cache (app.py get_live_data),    *)
(* the historical fallback, the risk assessment and the what-if simulator  *)
(* of the dashboard (app.py main), the retrying fetch primitive of the two *)
(* offline fetcher scripts (get_coral_reef_watch_data), their chunked bulk  *)
(* fetch (fetch_data_in_chunks), the merge of the two fetched files        *)
(* (merge_datasets.py merge_data), and the cleaning and calendar features  *)
(* of the preprocessor (data_preprocessor.py clean_data, feature_engineer).*)
(*                                                                         *)
(* Values.  A DataFrame is a sequence of rows; Python's None is NoneValue. *)
(* Coordinates are in hundredths of a degree, numeric readings in tenths,  *)
(* a time is a day ordinal (ordinal 1 is Monday 2024-01-01), the clock is  *)
(* in seconds; a missing reading is NaN.  An HTTP exchange is a record:    *)
(* the exception the transport raised (if any), the status code, and what  *)
(* the body text holds (the                                                *)
(* "ERROR" marker, its length in characters, the number of CSV columns and *)
(* the data rows that follow the header and the units line).               *)
(***************************************************************************)
EXTENDS Integers, Sequences, FiniteSets, TLC

\* ------------------------------------------------------------------ bounds
MaxRuns == 2            \* script reruns of the dashboard in one behaviour
MaxClock == 5400        \* the clock stops advancing here (seconds)
MaxRetriesArg == 3      \* largest max_retries argument explored
MaxDay == 1100          \* latest day ordinal a normalized row is dated
MaxYears == 2           \* years from 2024 on that --start-year/--end-year take
MaxChunkMonths == 12    \* largest --chunk-months explored
MaxTimes == 2           \* most days one location has in a fetched file

\* ------------------------------------------------------- program constants
TTL == 3600             \* @st.cache_data(ttl=3600)
MinBodyLength == 100    \* len(csv_data) < 100
ExpectedColumns == 9    \* the nine names assigned to df.columns
InvalidBodyDelay == 5   \* time.sleep(5)
ExceptionDelay == 10    \* time.sleep(10)
DefaultMaxRetries == 3  \* max_retries=3
DefaultChunkMonths == 3 \* chunk_months=3
ChunkDelay == 2         \* time.sleep(2)

REEF_LOCATIONS ==
  [ Andaman_Islands     |-> [lat |-> 1125, lon |-> 9277],
    Lakshadweep_Islands |-> [lat |-> 1056, lon |-> 7264],
    Gulf_of_Mannar      |-> [lat |-> 880,  lon |-> 7825],
    Gulf_of_Kutch       |-> [lat |-> 2247, lon |-> 6907] ]

LocationNames == DOMAIN REEF_LOCATIONS

server_urls == << "coastwatch.pfeg.noaa.gov", "oceanwatch.pifsc.noaa.gov" >>

\* ------------------------------------------------------------ plain values
NoneValue == [isNone |-> TRUE, rows |-> << >>]

DataFrame(rows) == [isNone |-> FALSE, rows |-> rows]

IsNone(v) == v.isNone

IsEmpty(v) == ~v.isNone /\ v.rows = << >>

\* ---------------------------------------------------------------- calendar
IsLeap(y) == (y % 4 = 0 /\ y % 100 # 0) \/ y % 400 = 0

DaysInYear(y) == IF IsLeap(y) THEN 366 ELSE 365

DaysInMonth(y, m) ==
  IF m = 2 THEN (IF IsLeap(y) THEN 29 ELSE 28)
  ELSE IF m \in {4, 6, 9, 11} THEN 30 ELSE 31

RECURSIVE YearAndDay(_, _)
YearAndDay(ord, y) ==
  IF ord <= DaysInYear(y) THEN [year |-> y, day_of_year |-> ord]
  ELSE YearAndDay(ord - DaysInYear(y), y + 1)

RECURSIVE MonthOfDay(_, _, _)
MonthOfDay(y, doy, m) ==
  IF doy <= DaysInMonth(y, m) THEN m
  ELSE MonthOfDay(y, doy - DaysInMonth(y, m), m + 1)

\* ISO weekday, Monday = 1 .. Sunday = 7
Weekday(ord) == ((ord - 1) % 7) + 1

\* weekday of January 1 of the year that holds ord
Jan1Weekday(ord) == Weekday(ord - YearAndDay(ord, 2024).day_of_year + 1)

\* a year has 53 ISO weeks when it starts on a Thursday, or is a leap year
\* starting on a Wednesday
IsoWeeksOfYearStarting(jan1, leap) ==
  IF jan1 = 4 \/ (leap /\ jan1 = 3) THEN 53 ELSE 52

IsoWeek(ord) ==
  LET yd == YearAndDay(ord, 2024)
      w  == (yd.day_of_year - Weekday(ord) + 10) \div 7
      prevJan1 == Weekday(ord - yd.day_of_year + 1 - DaysInYear(yd.year - 1))
  IN  IF w < 1 THEN IsoWeeksOfYearStarting(prevJan1, IsLeap(yd.year - 1))
      ELSE IF w > IsoWeeksOfYearStarting(Jan1Weekday(ord), IsLeap(yd.year))
           THEN 1
      ELSE w

\* ------------------------------------------------------------------- rows
\* numeric readings of a row observed at time t (tenths); the six variables
\* the query asks for
Readings(t) ==
  [ sea_surface_temp_c          |-> 280 + (t % 7),
    hotspot_c                   |-> t % 3,
    degree_heating_week_c_weeks |-> (t % 5) * 10,
    sst_anomaly_c               |-> t % 4,
    bleaching_alert_area        |-> t % 2,
    bleaching_alert_area_7d_max |-> (t % 2) + 1 ]

RawColumns ==
  { "time", "latitude", "longitude", "sea_surface_temp_c", "hotspot_c",
    "degree_heating_week_c_weeks", "sst_anomaly_c", "bleaching_alert_area",
    "bleaching_alert_area_7d_max" }

\* a data row of an endpoint's answer to the query for (lat, lon)
LiveRow(lat, lon, t) ==
  [c \in RawColumns |->
     IF c = "time" THEN t
     ELSE IF c = "latitude" THEN lat
     ELSE IF c = "longitude" THEN lon
     ELSE Readings(t)[c]]

\* feature_engineer / preprocess_live_data: the four calendar columns of a
\* row, derived from its time
CalendarColumns(t) ==
  LET yd == YearAndDay(t, 2024)
  IN  [ year         |-> yd.year,
        month        |-> MonthOfDay(yd.year, yd.day_of_year, 1),
        day_of_year  |-> yd.day_of_year,
        week_of_year |-> IsoWeek(t) ]

\* df[name] = value for every (name, value) of cols: existing columns are
\* overwritten, new ones are added
WithColumns(row, cols) ==
  [c \in DOMAIN row \cup DOMAIN cols |->
     IF c \in DOMAIN cols THEN cols[c] ELSE row[c]]

preprocess_live_data(df) ==
  DataFrame([k \in 1..Len(df.rows) |->
               WithColumns(df.rows[k], CalendarColumns(df.rows[k].time))])

\* feature_engineer with the week counted from January 1 instead of the ISO
\* week
feature_engineerPlainWeek(df) ==
  DataFrame([k \in 1..Len(df.rows) |->
    LET t  == df.rows[k].time
        yd == YearAndDay(t, 2024)
    IN  WithColumns(df.rows[k],
          [ year         |-> yd.year,
            month        |-> MonthOfDay(yd.year, yd.day_of_year, 1),
            day_of_year  |-> yd.day_of_year,
            week_of_year |-> ((yd.day_of_year - 1) \div 7) + 1 ])])

\* data_preprocessor.py feature_engineer: dt.year, dt.month, dt.dayofyear and
\* dt.isocalendar().week of each row's time
feature_engineer(df) ==
  DataFrame([k \in 1..Len(df.rows) |->
    LET t  == df.rows[k].time
        yd == YearAndDay(t, 2024)
    IN  WithColumns(df.rows[k],
          [ year         |-> yd.year,
            month        |-> MonthOfDay(yd.year, yd.day_of_year, 1),
            day_of_year  |-> yd.day_of_year,
            week_of_year |-> IsoWeek(t) ])])

\* a row of the merged raw file: the raw columns and location_name
MergedRow(name, t, readings) ==
  WithColumns(LiveRow(REEF_LOCATIONS[name].lat, REEF_LOCATIONS[name].lon, t),
              WithColumns(readings, [location_name |-> name]))

\* a row of coral_data_PROCESSED.csv: the raw columns, location_name, the
\* calendar columns and the heuristic label
HistoricalRow(name, t) ==
  WithColumns(
    WithColumns(LiveRow(REEF_LOCATIONS[name].lat, REEF_LOCATIONS[name].lon, t),
                CalendarColumns(t)),
    [location_name |-> name, bleaching_risk_percent |-> 100 + t])

features_for_model ==
  { "sea_surface_temp_c", "hotspot_c", "degree_heating_week_c_weeks",
    "sst_anomaly_c", "bleaching_alert_area", "bleaching_alert_area_7d_max",
    "year", "month", "day_of_year", "week_of_year" }

\* live_df_processed[features_for_model]
SelectFeatures(row) == [c \in features_for_model |-> row[c]]

\* the float NaN that read_csv puts where the body says NaN (no reading is
\* negative in this model)
NaN == -1

HasMissing(row) == \E c \in DOMAIN row : row[c] = NaN

\* model.predict(X)[0] of the pickled estimator: the GradientBoostingRegressor
\* of train_model.py raises ValueError on a NaN input, the XGBRegressor of
\* train_XG_boost.py predicts from it; both scripts write the same file
PredictOutcomes(row) ==
  IF HasMissing(row) THEN {"prediction", "ValueError"} ELSE {"prediction"}

\* ------------------------------------------------- DataFrame operations
\* df[df[col] == value]
RECURSIVE FilterLocation(_, _)
FilterLocation(rows, name) ==
  IF rows = << >> THEN << >>
  ELSE IF Head(rows).location_name = name
       THEN << Head(rows) >> \o FilterLocation(Tail(rows), name)
       ELSE FilterLocation(Tail(rows), name)

\* insert row after the last row whose time is not greater (stable)
RECURSIVE InsertByTime(_, _)
InsertByTime(sorted, row) ==
  IF sorted = << >> THEN << row >>
  ELSE IF Head(sorted).time <= row.time
       THEN << Head(sorted) >> \o InsertByTime(Tail(sorted), row)
       ELSE << row >> \o sorted

\* df.sort_values('time')
RECURSIVE SortByTime(_)
SortByTime(rows) ==
  IF rows = << >> THEN << >>
  ELSE InsertByTime(SortByTime(SubSeq(rows, 1, Len(rows) - 1)), rows[Len(rows)])

\* df.iloc[-1:]
LastRowOnly(rows) ==
  IF rows = << >> THEN << >> ELSE << rows[Len(rows)] >>

\* iloc[-1:] of the frame as it came
LatestRowUnsorted(rows) == LastRowOnly(rows)

\* df.sort_values('time').iloc[-1:]
LatestRow(rows) == LastRowOnly(SortByTime(rows))

MaxTime(rows) ==
  CHOOSE t \in {rows[k].time : k \in 1..Len(rows)} :
    \A k \in 1..Len(rows) : rows[k].time <= t

\* ------------------------------------------------------- HTTP exchanges
\* what one requests.get(...) can come back with for the query at (lat, lon);
\* the two data times are unsorted in the body
Exchange(exc, status, marker, length, columns, rows) ==
  [ exc |-> exc, status |-> status, marker |-> marker, length |-> length,
    columns |-> columns, rows |-> rows ]

TimeoutExchange == Exchange("Timeout", 0, FALSE, 0, 0, << >>)

ConnectionErrorExchange == Exchange("ConnectionError", 0, FALSE, 0, 0, << >>)

HttpErrorExchange == Exchange("none", 500, FALSE, 180, 1, << >>)

ErrorMarkerBody(lat, lon) ==
  Exchange("none", 200, TRUE, 300, 9, << LiveRow(lat, lon, 400) >>)

ShortBody == Exchange("none", 200, FALSE, 40, 1, << >>)

MismatchBody(lat, lon) ==
  Exchange("none", 200, FALSE, 280, 8, << LiveRow(lat, lon, 400) >>)

EmptyBody == Exchange("none", 200, FALSE, 160, 9, << >>)

DataBody(lat, lon) ==
  Exchange("none", 200, FALSE, 400, 9,
           << LiveRow(lat, lon, 401), LiveRow(lat, lon, 400) >>)

Exchanges(lat, lon) ==
  { TimeoutExchange, ConnectionErrorExchange, HttpErrorExchange,
    ErrorMarkerBody(lat, lon), ShortBody, MismatchBody(lat, lon), EmptyBody,
    DataBody(lat, lon) }

\* an error page served with status 200: the "ERROR" token in a long body
\* that is no table at all
MarkerPage == Exchange("none", 200, TRUE, 300, 1, << >>)

\* the answers of a scripted endpoint to the requests of one call
ScriptedExchanges(lat, lon) == Exchanges(lat, lon) \cup {MarkerPage}

\* requests.exceptions: Timeout, ConnectionError and HTTPError are all
\* RequestException; ValueError and IndexError are not
IsRequestException(exc) == exc \in {"Timeout", "ConnectionError", "HTTPError"}

\* a valid body whose only row has no hotspot reading
GappyBody(lat, lon) ==
  Exchange("none", 200, FALSE, 260, 9,
           << WithColumns(LiveRow(lat, lon, 401), [hotspot_c |-> NaN]) >>)

\* valid bodies with the latest row in the middle and at the end
ShuffledBody(lat, lon) ==
  Exchange("none", 200, FALSE, 520, 9,
           << LiveRow(lat, lon, 399), LiveRow(lat, lon, 402),
              LiveRow(lat, lon, 400) >>)

AscendingBody(lat, lon) ==
  Exchange("none", 200, FALSE, 400, 9,
           << LiveRow(lat, lon, 398), LiveRow(lat, lon, 399) >>)

\* the answers of the scripted endpoints to the requests of one script run
RunExchanges(lat, lon) ==
  ScriptedExchanges(lat, lon)
    \cup {GappyBody(lat, lon), ShuffledBody(lat, lon), AscendingBody(lat, lon)}

\* the try block without the marker and length check: every body that
\* arrives with a good status goes to read_csv
ResponseOutcomeUnvalidated(ex) ==
  IF ex.exc # "none" THEN [kind |-> "exception", exc |-> ex.exc, rows |-> << >>]
  ELSE IF ex.status >= 400
       THEN [kind |-> "exception", exc |-> "HTTPError", rows |-> << >>]
  ELSE IF ex.columns # ExpectedColumns
       THEN [kind |-> "exception", exc |-> "ValueError", rows |-> << >>]
  ELSE [kind |-> "parsed", exc |-> "none", rows |-> ex.rows]

\* the body of the try block shared by get_live_data and both
\* get_coral_reef_watch_data: requests.get, raise_for_status, the marker and
\* length check, read_csv(skiprows=[1]), the assignment of the nine column
\* names (a ValueError when the frame has another number of columns)
ResponseOutcome(ex) ==
  IF ex.exc # "none" THEN [kind |-> "exception", exc |-> ex.exc, rows |-> << >>]
  ELSE IF ex.status >= 400
       THEN [kind |-> "exception", exc |-> "HTTPError", rows |-> << >>]
  ELSE IF ex.marker \/ ex.length < MinBodyLength
       THEN [kind |-> "invalid", exc |-> "none", rows |-> << >>]
  ELSE IF ex.columns # ExpectedColumns
       THEN [kind |-> "exception", exc |-> "ValueError", rows |-> << >>]
  ELSE [kind |-> "parsed", exc |-> "none", rows |-> ex.rows]

Step(ctl, value, exc, sleep) ==
  [ctl |-> ctl, value |-> value, exc |-> exc, sleep |-> sleep]

\* get_live_data without the return: a parsed answer does not end the loop
LiveIterationKeepsGoing(ex) ==
  LET o == ResponseOutcome(ex)
  IN  IF o.kind = "exception" /\ ~IsRequestException(o.exc)
      THEN Step("raise", NoneValue, o.exc, 0)
      ELSE Step("continue", NoneValue, "none", 0)

\* one iteration of the loop over server_urls in get_live_data
LiveIteration(ex) ==
  LET o == ResponseOutcome(ex)
  IN  IF o.kind = "exception"
      THEN IF IsRequestException(o.exc)
           THEN Step("continue", NoneValue, "none", 0)
           ELSE Step("raise", NoneValue, o.exc, 0)
      ELSE IF o.kind = "invalid" THEN Step("continue", NoneValue, "none", 0)
      ELSE Step("return", DataFrame(LatestRow(o.rows)), "none", 0)

\* the retry loop giving up at the first invalid body
NoaaIterationNoRetry(ex, attempt, retries) ==
  LET o == ResponseOutcome(ex)
  IN  IF o.kind = "invalid" THEN Step("return", NoneValue, "none", 0)
      ELSE IF o.kind = "parsed"
      THEN Step("return", DataFrame(o.rows), "none", 0)
      ELSE IF IsRequestException(o.exc)
      THEN IF attempt < retries - 1
           THEN Step("continue", NoneValue, "none", ExceptionDelay)
           ELSE Step("return", NoneValue, "none", 0)
      ELSE Step("raise", NoneValue, o.exc, 0)

\* the retry loop waiting the same time after every kind of failure
NoaaIterationFlatDelay(ex, attempt, retries) ==
  LET o == ResponseOutcome(ex)
  IN  IF o.kind = "invalid"
      THEN IF attempt < retries - 1
           THEN Step("continue", NoneValue, "none", ExceptionDelay)
           ELSE Step("return", NoneValue, "none", 0)
      ELSE IF o.kind = "parsed"
      THEN Step("return", DataFrame(o.rows), "none", 0)
      ELSE IF IsRequestException(o.exc)
      THEN IF attempt < retries - 1
           THEN Step("continue", NoneValue, "none", ExceptionDelay)
           ELSE Step("return", NoneValue, "none", 0)
      ELSE Step("raise", NoneValue, o.exc, 0)

\* one iteration of the retry loop of get_coral_reef_watch_data in
\* noaa_data_fetcher.py; attempt counts from 0
NoaaIteration(ex, attempt, retries) ==
  LET o == ResponseOutcome(ex)
  IN  IF o.kind = "invalid"
      THEN IF attempt < retries - 1
           THEN Step("continue", NoneValue, "none", InvalidBodyDelay)
           ELSE Step("return", NoneValue, "none", 0)
      ELSE IF o.kind = "parsed"
      THEN Step("return", DataFrame(o.rows), "none", 0)
      ELSE IF IsRequestException(o.exc)
      THEN IF attempt < retries - 1
           THEN Step("continue", NoneValue, "none", ExceptionDelay)
           ELSE Step("return", NoneValue, "none", 0)
      ELSE Step("raise", NoneValue, o.exc, 0)

\* the last attempt's request exception re-raised instead of swallowed
MissingIterationReraisesOnLast(ex, attempt, retries) ==
  LET o == ResponseOutcome(ex)
  IN  IF o.kind = "invalid"
      THEN Step("continue", NoneValue, "none",
                IF attempt < retries - 1 THEN InvalidBodyDelay ELSE 0)
      ELSE IF o.kind = "parsed"
      THEN Step("return", DataFrame(o.rows), "none", 0)
      ELSE IF IsRequestException(o.exc) /\ attempt < retries - 1
      THEN Step("continue", NoneValue, "none", ExceptionDelay)
      ELSE Step("raise", NoneValue, o.exc, 0)

\* the iteration sleeping after the last attempt as well
MissingIterationAlwaysSleeps(ex, attempt, retries) ==
  LET o == ResponseOutcome(ex)
  IN  IF o.kind = "invalid"
      THEN Step("continue", NoneValue, "none", InvalidBodyDelay)
      ELSE IF o.kind = "parsed"
      THEN Step("return", DataFrame(o.rows), "none", 0)
      ELSE IF IsRequestException(o.exc)
      THEN Step("continue", NoneValue, "none", ExceptionDelay)
      ELSE Step("raise", NoneValue, o.exc, 0)

\* the copy waiting after a request exception as long as after an invalid body
MissingIterationShortWait(ex, attempt, retries) ==
  LET o == ResponseOutcome(ex)
  IN  IF o.kind = "invalid"
      THEN Step("continue", NoneValue, "none",
                IF attempt < retries - 1 THEN InvalidBodyDelay ELSE 0)
      ELSE IF o.kind = "parsed"
      THEN Step("return", DataFrame(o.rows), "none", 0)
      ELSE IF IsRequestException(o.exc)
      THEN Step("continue", NoneValue, "none",
                IF attempt < retries - 1 THEN InvalidBodyDelay ELSE 0)
      ELSE Step("raise", NoneValue, o.exc, 0)

\* the same iteration in fetch_missing_data.py
MissingIteration(ex, attempt, retries) ==
  LET o == ResponseOutcome(ex)
  IN  IF o.kind = "invalid"
      THEN Step("continue", NoneValue, "none",
                IF attempt < retries - 1 THEN InvalidBodyDelay ELSE 0)
      ELSE IF o.kind = "parsed"
      THEN Step("return", DataFrame(o.rows), "none", 0)
      ELSE IF IsRequestException(o.exc)
      THEN Step("continue", NoneValue, "none",
                IF attempt < retries - 1 THEN ExceptionDelay ELSE 0)
      ELSE Step("raise", NoneValue, o.exc, 0)

\* ------------------------------------------------------------ map clicks
Unset == "<unset>"      \* 'selected_location' not in st.session_state

\* the characters of a name, words and separators
Spelling ==
  [ Andaman_Islands     |-> << "Andaman", "_", "Islands" >>,
    Lakshadweep_Islands |-> << "Lakshadweep", "_", "Islands" >>,
    Gulf_of_Mannar      |-> << "Gulf", "_", "of", "_", "Mannar" >>,
    Gulf_of_Kutch       |-> << "Gulf", "_", "of", "_", "Kutch" >> ]

\* str.replace(old, new)
Replace(text, old, new) ==
  [k \in 1..Len(text) |-> IF text[k] = old THEN new ELSE text[k]]

\* popup=name.replace("_", " ") of each marker
MarkerPopup(name) == Replace(Spelling[name], "_", " ")

NoClick == << >>        \* map_data is empty or has no clicked popup

PopupTexts ==
  {MarkerPopup(n) : n \in LocationNames}
    \cup { << "Palk", " ", "Bay" >>, << "Gulf", "_", "of", " ", "Kutch" >>, NoClick }

\* lines 139-142: the session's selected_location after the click
SelectedAfterClick(selected, popup) ==
  IF popup = NoClick THEN selected
  ELSE LET clicked_name == Replace(popup, " ", "_")
       IN  IF \E n \in LocationNames : Spelling[n] = clicked_name
           THEN CHOOSE n \in LocationNames : Spelling[n] = clicked_name
           ELSE selected

\* ------------------------------------------------------------ result cache
\* @st.cache_data(ttl=3600) keyed by the arguments (lat, lon)
CacheKeys == {REEF_LOCATIONS[n] : n \in LocationNames}

NoEntry == [present |-> FALSE, value |-> NoneValue, stored_at |-> 0]

\* the age comparison turned around
CacheFreshInverted(entry, t) == entry.present /\ t - entry.stored_at > TTL

\* a cache without expiry
CacheFreshForever(entry, t) == entry.present

\* an entry is served while it is younger than the TTL
CacheFresh(entry, t) == entry.present /\ t - entry.stored_at < TTL

\* the decorator memoizes whatever value the function returns, None included;
\* a call that raises stores nothing
CacheStores(value) == TRUE

CacheAfterReturn(c, key, value, t) ==
  IF CacheStores(value)
  THEN [c EXCEPT ![key] = [present |-> TRUE, value |-> value, stored_at |-> t]]
  ELSE c

\* ------------------------------------------------------- historical store
\* coral_data_PROCESSED.csv as the pipeline writes it: ordered by
\* location_name, then time; Gulf_of_Mannar is the location whose download
\* can be missing from the master file
HistoricalStores ==
  { << HistoricalRow("Andaman_Islands", 59), HistoricalRow("Andaman_Islands", 60),
       HistoricalRow("Gulf_of_Kutch", 366),
       HistoricalRow("Lakshadweep_Islands", 58),
       HistoricalRow("Lakshadweep_Islands", 59),
       HistoricalRow("Lakshadweep_Islands", 60) >>,
    << HistoricalRow("Andaman_Islands", 60),
       HistoricalRow("Gulf_of_Kutch", 59), HistoricalRow("Gulf_of_Kutch", 366),
       HistoricalRow("Gulf_of_Mannar", 58),
       HistoricalRow("Lakshadweep_Islands", 366) >> }

\* ------------------------------------------------------------------ state
VARIABLES
  historical_df,      \* load_historical_data(): the rows of the processed file
  selected_location,  \* st.session_state.selected_location, or Unset
  now,                \* wall clock, seconds
  cache,              \* st.cache_data store of get_live_data
  pc,                 \* where the current script run of main() stands
  runs,               \* script runs started so far
  started_at,         \* clock value when the current run started
  live_df_raw,        \* main's live_df_raw
  requests,           \* requests.get calls of the current get_live_data call
  i,                  \* loop index over server_urls
  returned,           \* << value >> once get_live_data has returned
  cache_hit,          \* the current call was served from the cache
  warning,            \* << fallback time >> once st.warning was shown
  model_calls,        \* feature rows passed to model.predict in this run
  error_shown,        \* st.error("Could not retrieve any data ...") shown
  raised,             \* exception that ended the run, or "none"
  prev,               \* summary of the previous script run
  sim_sst,            \* << value >> of the first slider once tab2 drew it
  sim_dhw,            \* << value >> of the second slider
  sim_calls,          \* feature rows passed to model.predict by tab2
  sim_error,          \* st.error("Data is required for the simulator ...")
  raw_df,             \* data_preprocessor.py: the frame it loads and rewrites
  pp,                 \* data_preprocessor.py: the step it stands before
  max_retries,        \* argument of get_coral_reef_watch_data
  script,             \* the endpoint's answers to the 1st, 2nd, ... request
  crw,                \* per fetcher script: its get_coral_reef_watch_data call
  args,               \* command line of a fetcher script's __main__
  bulk,               \* that __main__ and its fetch_data_in_chunks call
  merge               \* merge_datasets.py: merge_data's files and position

appVars ==
  << historical_df, selected_location, now, cache, pc, runs, started_at,
     live_df_raw, requests, i, returned, cache_hit, warning, model_calls,
     error_shown, raised, prev >>

simVars == << sim_sst, sim_dhw, sim_calls, sim_error >>

crwVars == << max_retries, script, crw >>

prepVars == << raw_df, pp >>

batchVars == << args, bulk, merge >>

vars == << appVars, simVars, crwVars, prepVars, batchVars >>

\* data_preprocessor.py is not running
PrepOff == raw_df = NoneValue /\ pp = "off"

\* tab2 has not run in this script run
SimOff ==
  /\ sim_sst = << >>
  /\ sim_dhw = << >>
  /\ sim_calls = << >>
  /\ sim_error = FALSE

Fetchers == {"noaa_data_fetcher", "fetch_missing_data"}

NoArgs ==
  [ program |-> "none", start_year |-> 0, end_year |-> 0, chunk_months |-> 0 ]

BulkOff ==
  [ pc |-> "off", idx |-> 0, year |-> 0, month_start |-> 0, windows |-> << >>,
    all_dfs |-> 0, all_location_dfs |-> 0, calls |-> 0, slept |-> 0 ]

MergeOff ==
  [ pc |-> "off", df_master |-> NoneValue, df_missing |-> NoneValue,
    df_final |-> NoneValue ]

\* no fetcher script's __main__ and no merge_data is running
BatchOff == args = NoArgs /\ bulk = BulkOff /\ merge = MergeOff

NoRun ==
  [ location |-> Unset, at |-> 0, hit |-> FALSE, requests |-> 0,
    returned |-> << >>, raised |-> "none", live_df_raw |-> NoneValue,
    model_calls |-> << >>, warning |-> << >> ]

RunSummary ==
  [ location |-> selected_location, at |-> started_at, hit |-> cache_hit,
    requests |-> Len(requests), returned |-> returned, raised |-> raised,
    live_df_raw |-> live_df_raw, model_calls |-> model_calls,
    warning |-> warning ]

CallOff ==
  [ pc |-> "off", attempt |-> 0, requests |-> 0, slept |-> << >>,
    result |-> NoneValue, raised |-> "none" ]

CallStart == [CallOff EXCEPT !.pc = "loop"]

\* the dashboard before its first script run; the fetcher scripts not running
Init ==
  /\ historical_df \in HistoricalStores
  /\ selected_location = Unset
  /\ now = 0
  /\ cache = [k \in CacheKeys |-> NoEntry]
  /\ pc = "idle"
  /\ runs = 0
  /\ started_at = 0
  /\ live_df_raw = NoneValue
  /\ requests = << >>
  /\ i = 0
  /\ returned = << >>
  /\ cache_hit = FALSE
  /\ warning = << >>
  /\ model_calls = << >>
  /\ error_shown = FALSE
  /\ raised = "none"
  /\ prev = NoRun
  /\ SimOff
  /\ max_retries = 0
  /\ script = << >>
  /\ crw = [f \in Fetchers |-> CallOff]
  /\ PrepOff
  /\ BatchOff

\* --------------------------------------------------------------- dashboard
\* time passes between script runs (the clock starts with the first run)
TickStep == TTL \div 2

Tick ==
  /\ pc = "done"
  /\ now + TickStep <= MaxClock
  /\ now' = now + TickStep
  /\ UNCHANGED << historical_df, selected_location, cache, pc, runs,
                  started_at, live_df_raw, requests, i, returned, cache_hit,
                  warning, model_calls, error_shown, raised, prev >>
  /\ UNCHANGED simVars
  /\ UNCHANGED crwVars
  /\ UNCHANGED prepVars
  /\ UNCHANGED batchVars

\* a script run of main() up to the call of get_live_data (lines 115-154):
\* the click is recorded, and the decorator either serves the cached value
\* or lets the function body run
Rerun(popup) ==
  /\ pc \in {"idle", "done"}
  /\ runs < MaxRuns
  /\ runs' = runs + 1
  /\ started_at' = now
  /\ prev' = IF runs = 0 THEN prev ELSE RunSummary
  /\ selected_location' = SelectedAfterClick(selected_location, popup)
  /\ requests' = << >>
  /\ i' = 0
  /\ warning' = << >>
  /\ model_calls' = << >>
  /\ error_shown' = FALSE
  /\ raised' = "none"
  /\ IF selected_location' = Unset
     THEN /\ pc' = "done"
          /\ live_df_raw' = NoneValue
          /\ returned' = << >>
          /\ cache_hit' = FALSE
     ELSE LET entry == cache[REEF_LOCATIONS[selected_location']]
          IN  IF CacheFresh(entry, now)
              THEN /\ pc' = "fallback"
                   /\ live_df_raw' = entry.value
                   /\ returned' = << entry.value >>
                   /\ cache_hit' = TRUE
              ELSE /\ pc' = "get_live_data"
                   /\ live_df_raw' = NoneValue
                   /\ returned' = << >>
                   /\ cache_hit' = FALSE
  /\ sim_sst' = << >>
  /\ sim_dhw' = << >>
  /\ sim_calls' = << >>
  /\ sim_error' = FALSE
  /\ UNCHANGED << historical_df, now, cache >>
  /\ UNCHANGED crwVars
  /\ UNCHANGED prepVars
  /\ UNCHANGED batchVars

\* what the request log keeps of an exchange: the endpoint's position in
\* server_urls, how the attempt ended, and the number of rows parsed
Logged(index, ex) ==
  LET o == ResponseOutcome(ex)
  IN  [ index   |-> index,
        outcome |-> IF o.kind # "exception" THEN o.kind
                    ELSE IF IsRequestException(o.exc) THEN "RequestException"
                    ELSE o.exc,
        rows    |-> Len(o.rows) ]

\* the answer to the k-th request of a call whose endpoints are scripted
Answer(k) == script[IF k <= Len(script) THEN k ELSE Len(script)]

\* the answers to a query that carries the two coordinates the wrong way round
OfferedForSwappedQuery(lat, lon) ==
  IF script = << >> THEN Exchanges(lon, lat) ELSE {Answer(i + 1)}

\* what requests.get can come back with for the next request of
\* get_live_data: anything of Exchanges, or the scripted answer
Offered(lat, lon) ==
  IF script = << >> THEN Exchanges(lat, lon) ELSE {Answer(i + 1)}

\* get_live_data returns value: the decorator stores it, main binds it
LiveReturn(value) ==
  /\ returned' = << value >>
  /\ live_df_raw' = value
  /\ cache' = CacheAfterReturn(cache, REEF_LOCATIONS[selected_location], value, now)
  /\ pc' = "fallback"
  /\ raised' = raised

\* one iteration of the loop over server_urls (lines 67-86)
get_live_data_request ==
  /\ pc = "get_live_data"
  /\ i < Len(server_urls)
  /\ \E ex \in Offered(REEF_LOCATIONS[selected_location].lat,
                       REEF_LOCATIONS[selected_location].lon) :
       LET st == LiveIteration(ex)
       IN  /\ requests' = Append(requests, Logged(i + 1, ex))
           /\ IF st.ctl = "continue"
              THEN /\ i' = i + 1
                   /\ UNCHANGED << returned, live_df_raw, cache, pc, raised >>
              ELSE IF st.ctl = "return"
              THEN /\ LiveReturn(st.value)
                   /\ i' = i
              ELSE /\ raised' = st.exc
                   /\ pc' = "done"
                   /\ UNCHANGED << returned, live_df_raw, cache, i >>
  /\ UNCHANGED << historical_df, selected_location, now, runs, started_at,
                  cache_hit, warning, model_calls, error_shown, prev >>
  /\ UNCHANGED simVars
  /\ UNCHANGED crwVars
  /\ UNCHANGED prepVars
  /\ UNCHANGED batchVars

\* the loop is over: return None (line 87)
get_live_data_exhausted ==
  /\ pc = "get_live_data"
  /\ i >= Len(server_urls)
  /\ LiveReturn(NoneValue)
  /\ UNCHANGED << historical_df, selected_location, now, runs, started_at,
                  requests, i, cache_hit, warning, model_calls, error_shown,
                  prev >>
  /\ UNCHANGED simVars
  /\ UNCHANGED crwVars
  /\ UNCHANGED prepVars
  /\ UNCHANGED batchVars

\* the fallback without its st.warning
FallbackWarningOmitted(latest) == << >>

\* lines 159-162: st.warning with the fallback row's own time
FallbackWarning(latest) == << latest[1].time >>

\* lines 156-162: the historical fallback
Fallback ==
  /\ pc = "fallback"
  /\ IF IsNone(live_df_raw) \/ IsEmpty(live_df_raw)
     THEN LET location_historical_df ==
                FilterLocation(historical_df, selected_location)
              latest == LatestRow(location_historical_df)
          IN  /\ live_df_raw' = DataFrame(latest)
              /\ IF latest = << >>
                 THEN \* live_df_raw['time'].iloc[0] on an empty frame
                      /\ raised' = "IndexError"
                      /\ pc' = "done"
                      /\ warning' = warning
                 ELSE /\ warning' = FallbackWarning(latest)
                      /\ pc' = "tab1"
                      /\ raised' = raised
     ELSE /\ pc' = "tab1"
          /\ UNCHANGED << live_df_raw, warning, raised >>
  /\ UNCHANGED << historical_df, selected_location, now, cache, runs,
                  started_at, requests, i, returned, cache_hit, model_calls,
                  error_shown, prev >>
  /\ UNCHANGED simVars
  /\ UNCHANGED crwVars
  /\ UNCHANGED prepVars
  /\ UNCHANGED batchVars

\* lines 165-184: the live risk assessment
\* the code working on live_df_raw itself: what it leaves is the baseline
WorkedInPlace(original, worked) == worked

\* live_df_raw after the code took live_df_raw.copy() and left `worked` in
\* that copy: preprocess_live_data and the slider assignments write into the
\* frame they are given, which is the copy
WorkedOnCopy(original, worked) == original

Tab1 ==
  /\ pc = "tab1"
  /\ IF ~IsNone(live_df_raw) /\ ~IsEmpty(live_df_raw)
     THEN LET live_df_processed == preprocess_live_data(live_df_raw)
              X == SelectFeatures(live_df_processed.rows[1])
          IN  /\ model_calls' = Append(model_calls, X)
              /\ live_df_raw' = WorkedOnCopy(live_df_raw, live_df_processed)
              /\ error_shown' = error_shown
              /\ \E outcome \in PredictOutcomes(X) :
                   IF outcome = "prediction"
                   THEN pc' = "tab2" /\ raised' = raised
                   ELSE pc' = "done" /\ raised' = outcome
     ELSE /\ error_shown' = TRUE
          /\ model_calls' = model_calls
          /\ live_df_raw' = live_df_raw
          /\ pc' = "tab2"
          /\ raised' = raised
  /\ UNCHANGED << historical_df, selected_location, now, cache, runs,
                  started_at, requests, i, returned, cache_hit,
                  warning, prev >>
  /\ UNCHANGED simVars
  /\ UNCHANGED crwVars
  /\ UNCHANGED prepVars
  /\ UNCHANGED batchVars

\* st.slider(min_value, max_value, value, step=0.1): what the widget returns
\* is value while the user leaves it alone, else the position it was dragged
\* to; the position explored is the upper end of the range
SliderPositions(min_value, max_value, value) == {value, max_value}

\* the two assignments with their right-hand sides exchanged
SimulatedFrameSwapped(df, sst, dhw) ==
  DataFrame([k \in 1..Len(df.rows) |->
               WithColumns(df.rows[k],
                           [ sea_surface_temp_c          |-> dhw,
                             degree_heating_week_c_weeks |-> sst ])])

\* the simulator resetting a derived column as well
SimulatedFrameDerived(df, sst, dhw) ==
  DataFrame([k \in 1..Len(df.rows) |->
               WithColumns(df.rows[k],
                           [ sea_surface_temp_c          |-> sst,
                             degree_heating_week_c_weeks |-> dhw,
                             hotspot_c                   |-> 0 ])])

\* lines 205-207: the copy of the baseline frame with the two columns
\* overwritten by the slider values
SimulatedFrame(df, sst, dhw) ==
  DataFrame([k \in 1..Len(df.rows) |->
               WithColumns(df.rows[k],
                           [ sea_surface_temp_c          |-> sst,
                             degree_heating_week_c_weeks |-> dhw ])])

\* lines 185-222: the what-if simulator
Tab2 ==
  /\ pc = "tab2"
  /\ IF ~IsNone(live_df_raw) /\ ~IsEmpty(live_df_raw)
     THEN LET base_sst == live_df_raw.rows[1].sea_surface_temp_c
              base_dhw == live_df_raw.rows[1].degree_heating_week_c_weeks
          IN  \E sst \in SliderPositions(base_sst - 20, base_sst + 40, base_sst),
                 dhw \in SliderPositions(0, base_dhw + 80, base_dhw) :
                LET sim_df == SimulatedFrame(live_df_raw, sst, dhw)
                    sim_df_processed == preprocess_live_data(sim_df)
                IN  /\ sim_sst' = << sst >>
                    /\ sim_dhw' = << dhw >>
                    /\ sim_calls' =
                         Append(sim_calls, SelectFeatures(sim_df_processed.rows[1]))
                    /\ sim_error' = sim_error
                    /\ live_df_raw' = WorkedOnCopy(live_df_raw, sim_df_processed)
     ELSE /\ sim_error' = TRUE
          /\ UNCHANGED << sim_sst, sim_dhw, sim_calls, live_df_raw >>
  /\ pc' = "done"
  /\ UNCHANGED << historical_df, selected_location, now, cache, runs,
                  started_at, requests, i, returned, cache_hit,
                  warning, model_calls, error_shown, raised, prev >>
  /\ UNCHANGED crwVars
  /\ UNCHANGED prepVars
  /\ UNCHANGED batchVars

\* ------------------------------------------------- get_coral_reef_watch_data
Iteration(f, ex, attempt, retries) ==
  IF f = "noaa_data_fetcher" THEN NoaaIteration(ex, attempt, retries)
  ELSE MissingIteration(ex, attempt, retries)

\* range(max_retries + 1): one iteration too many
InRangeInclusive(attempt, retries) == attempt <= retries

\* `for attempt in range(max_retries)` has another iteration to run
InRange(attempt, retries) == attempt < retries

\* one iteration of `for attempt in range(max_retries)`
crw_request(f) ==
  /\ crw[f].pc = "loop"
  /\ InRange(crw[f].attempt, max_retries)
  /\ LET c  == crw[f]
         st == Iteration(f, Answer(c.requests + 1), c.attempt, max_retries)
         slept == IF st.sleep > 0 THEN Append(c.slept, st.sleep) ELSE c.slept
     IN  crw' = [crw EXCEPT ![f] =
           [ pc       |-> IF st.ctl = "continue" THEN "loop"
                          ELSE IF st.ctl = "return" THEN "returned" ELSE "raised",
             attempt  |-> IF st.ctl = "continue" THEN c.attempt + 1 ELSE c.attempt,
             requests |-> c.requests + 1,
             slept    |-> slept,
             result   |-> st.value,
             raised   |-> st.exc ]]
  /\ UNCHANGED << max_retries, script >>
  /\ UNCHANGED appVars
  /\ UNCHANGED prepVars
  /\ UNCHANGED batchVars
  /\ UNCHANGED simVars

\* the loop is over: the final `return None`
crw_exhausted(f) ==
  /\ crw[f].pc = "loop"
  /\ ~InRange(crw[f].attempt, max_retries)
  /\ crw' = [crw EXCEPT ![f].pc = "returned", ![f].result = NoneValue]
  /\ UNCHANGED << max_retries, script >>
  /\ UNCHANGED appVars
  /\ UNCHANGED prepVars
  /\ UNCHANGED batchVars
  /\ UNCHANGED simVars

\* --------------------------------------------------------- specifications
Next ==
  \/ Tick
  \/ \E popup \in PopupTexts : Rerun(popup)
  \/ get_live_data_request
  \/ get_live_data_exhausted
  \/ Fallback
  \/ Tab1
  \/ Tab2

Spec == Init /\ [][Next]_vars

\* one fetch call on its own against scripted endpoints: either
\* get_live_data(lat, lon) of a location with nothing cached, or
\* get_coral_reef_watch_data of both fetcher scripts against the same
\* endpoint behaviour
InitLiveCall ==
  /\ historical_df \in HistoricalStores
  /\ selected_location \in LocationNames
  /\ now = 0
  /\ cache = [k \in CacheKeys |-> NoEntry]
  /\ pc = "get_live_data"
  /\ runs = 1
  /\ started_at = 0
  /\ live_df_raw = NoneValue
  /\ requests = << >>
  /\ i = 0
  /\ returned = << >>
  /\ cache_hit = FALSE
  /\ warning = << >>
  /\ model_calls = << >>
  /\ error_shown = FALSE
  /\ raised = "none"
  /\ prev = NoRun
  /\ SimOff
  /\ max_retries = 0
  /\ script \in [1..Len(server_urls) ->
                   ScriptedExchanges(REEF_LOCATIONS[selected_location].lat,
                                     REEF_LOCATIONS[selected_location].lon)]
  /\ crw = [f \in Fetchers |-> CallOff]
  /\ PrepOff
  /\ BatchOff

InitCrwCall ==
  /\ historical_df = << >>
  /\ selected_location = Unset
  /\ now = 0
  /\ cache = [k \in CacheKeys |-> NoEntry]
  /\ pc = "off"
  /\ runs = 0
  /\ started_at = 0
  /\ live_df_raw = NoneValue
  /\ requests = << >>
  /\ i = 0
  /\ returned = << >>
  /\ cache_hit = FALSE
  /\ warning = << >>
  /\ model_calls = << >>
  /\ error_shown = FALSE
  /\ raised = "none"
  /\ prev = NoRun
  /\ SimOff
  /\ max_retries \in 0..MaxRetriesArg
  /\ script \in [1..MaxRetriesArg -> ScriptedExchanges(880, 7825)]
  /\ crw = [f \in Fetchers |-> CallStart]
  /\ PrepOff
  /\ BatchOff

InitFetch == InitLiveCall \/ InitCrwCall

NextFetch ==
  \/ get_live_data_request
  \/ get_live_data_exhausted
  \/ \E f \in Fetchers : crw_request(f)
  \/ \E f \in Fetchers : crw_exhausted(f)

SpecFetch == InitFetch /\ [][NextFetch]_vars

\* one script run of main() for a selected location with nothing cached,
\* from the call of get_live_data on, against scripted endpoints
InitRun ==
  /\ historical_df \in HistoricalStores
  /\ selected_location \in LocationNames
  /\ now = 0
  /\ cache = [k \in CacheKeys |-> NoEntry]
  /\ pc = "get_live_data"
  /\ runs = 1
  /\ started_at = 0
  /\ live_df_raw = NoneValue
  /\ requests = << >>
  /\ i = 0
  /\ returned = << >>
  /\ cache_hit = FALSE
  /\ warning = << >>
  /\ model_calls = << >>
  /\ error_shown = FALSE
  /\ raised = "none"
  /\ prev = NoRun
  /\ SimOff
  /\ max_retries = 0
  /\ script \in [1..Len(server_urls) ->
                   RunExchanges(REEF_LOCATIONS[selected_location].lat,
                                REEF_LOCATIONS[selected_location].lon)]
  /\ crw = [f \in Fetchers |-> CallOff]
  /\ PrepOff
  /\ BatchOff

NextRun ==
  \/ get_live_data_request
  \/ get_live_data_exhausted
  \/ Fallback
  \/ Tab1
  \/ Tab2

SpecRun == InitRun /\ [][NextRun]_vars

\* data_preprocessor.py line 103: engineered_df = feature_engineer(cleaned_df)
feature_engineer_call ==
  /\ pp = "feature_engineer"
  /\ raw_df' = feature_engineer(raw_df)
  /\ pp' = "apply_heuristic_labels"
  /\ UNCHANGED appVars
  /\ UNCHANGED simVars
  /\ UNCHANGED crwVars
  /\ UNCHANGED batchVars

\* the two normalizers side by side: data_preprocessor.py stands before
\* feature_engineer with a row of some day, and a script run of main() has
\* fetched a live row of the same day, for another place or with other
\* readings
InitCalendar ==
  /\ historical_df = << >>
  /\ selected_location \in LocationNames
  /\ now = 0
  /\ cache = [k \in CacheKeys |-> NoEntry]
  /\ pc = "tab1"
  /\ runs = 1
  /\ started_at = 0
  /\ requests = << >>
  /\ i = 0
  /\ cache_hit = FALSE
  /\ warning = << >>
  /\ model_calls = << >>
  /\ error_shown = FALSE
  /\ raised = "none"
  /\ prev = NoRun
  /\ SimOff
  /\ max_retries = 0
  /\ script = << >>
  /\ crw = [f \in Fetchers |-> CallOff]
  /\ BatchOff
  /\ pp = "feature_engineer"
  /\ \E t \in 1..MaxDay :
       /\ live_df_raw =
            DataFrame(<< LiveRow(REEF_LOCATIONS[selected_location].lat,
                                 REEF_LOCATIONS[selected_location].lon, t) >>)
       /\ raw_df = DataFrame(<< MergedRow("Gulf_of_Mannar", t, Readings(t + 1)) >>)
  /\ returned = << live_df_raw >>

NextCalendar ==
  \/ feature_engineer_call
  \/ Tab1
  \/ Tab2

SpecCalendar == InitCalendar /\ [][NextCalendar]_vars

\* ------------------------------------------------------ chunked bulk fetch
\* the dashboard is not running
DashboardOff ==
  /\ historical_df = << >>
  /\ selected_location = Unset
  /\ now = 0
  /\ cache = [k \in CacheKeys |-> NoEntry]
  /\ pc = "off"
  /\ runs = 0
  /\ started_at = 0
  /\ live_df_raw = NoneValue
  /\ requests = << >>
  /\ i = 0
  /\ returned = << >>
  /\ cache_hit = FALSE
  /\ warning = << >>
  /\ model_calls = << >>
  /\ error_shown = FALSE
  /\ raised = "none"
  /\ prev = NoRun
  /\ SimOff

\* no single get_coral_reef_watch_data call is followed attempt by attempt
CrwOff ==
  /\ max_retries = 0
  /\ script = << >>
  /\ crw = [f \in Fetchers |-> CallOff]

\* reef_locations of noaa_data_fetcher.py's __main__, in dict order
reef_locations ==
  << [name |-> "Andaman_Islands",     lat |-> 1125, lon |-> 9277],
     [name |-> "Lakshadweep_Islands", lat |-> 1056, lon |-> 7264],
     [name |-> "Gulf_of_Mannar",      lat |-> 878,  lon |-> 7814],
     [name |-> "Gulf_of_Kutch",       lat |-> 2247, lon |-> 6907] >>

\* location_to_fetch of fetch_missing_data.py's __main__
location_to_fetch == [name |-> "Gulf_of_Mannar", lat |-> 880, lon |-> 7825]

\* the locations a script's __main__ calls fetch_data_in_chunks for
LocationsOf(program) ==
  IF program = "noaa_data_fetcher" THEN reef_locations
  ELSE << location_to_fetch >>

\* a date of the query, as f"{year}-{month:02d}-{day}" writes it
Date(y, m, d) == [year |-> y, month |-> m, day |-> d]

\* month_end = min(month_start + chunk_months - 1, 12)
month_end(month_start, chunk_months) ==
  IF month_start + chunk_months - 1 < 12
  THEN month_start + chunk_months - 1 ELSE 12

\* the window ending on February 28 in every year
WindowIgnoringLeapYears(year, month_start, chunk_months) ==
  LET m == month_end(month_start, chunk_months)
  IN  [ start_date |-> Date(year, month_start, 1),
        end_date   |-> Date(year, m, IF m = 2 THEN 28
                                     ELSE DaysInMonth(year, m)) ]

\* start_date and end_date of one iteration of fetch_data_in_chunks
Window(year, month_start, chunk_months) ==
  LET m == month_end(month_start, chunk_months)
  IN  [ start_date |-> Date(year, month_start, 1),
        end_date   |-> Date(year, m, DaysInMonth(year, m)) ]

\* "Estimated total requests" of noaa_data_fetcher.py's __main__
total_requests ==
  Len(reef_locations) * (args.end_year - args.start_year + 1)
    * (12 \div args.chunk_months)

\* what get_coral_reef_watch_data can hand back for a window: None, a frame
\* without rows, a frame with rows
ChunkResults(lat, lon) ==
  { NoneValue, DataFrame(<< >>), DataFrame(<< LiveRow(lat, lon, 1) >>) }

\* __main__ calls fetch_data_in_chunks for its next location
fetch_data_in_chunks_call ==
  /\ bulk.pc = "main"
  /\ bulk.idx <= Len(LocationsOf(args.program))
  /\ bulk' = [bulk EXCEPT !.pc = "chunks", !.year = args.start_year,
                          !.month_start = 1, !.windows = << >>,
                          !.all_dfs = 0]
  /\ UNCHANGED << args, merge >>
  /\ UNCHANGED appVars
  /\ UNCHANGED simVars
  /\ UNCHANGED crwVars
  /\ UNCHANGED prepVars

\* one iteration of the two nested loops of fetch_data_in_chunks
chunk_request ==
  /\ bulk.pc = "chunks"
  /\ bulk.year <= args.end_year
  /\ LET loc  == LocationsOf(args.program)[bulk.idx]
         next == bulk.month_start + args.chunk_months
     IN  \E df \in ChunkResults(loc.lat, loc.lon) :
           bulk' = [bulk EXCEPT
             !.windows = Append(@, Window(bulk.year, bulk.month_start,
                                          args.chunk_months)),
             !.calls = @ + 1,
             !.all_dfs = IF ~IsNone(df) /\ ~IsEmpty(df) THEN @ + 1 ELSE @,
             !.slept = @ + ChunkDelay,
             !.month_start = IF next < 13 THEN next ELSE 1,
             !.year = IF next < 13 THEN @ ELSE @ + 1]
  /\ UNCHANGED << args, merge >>
  /\ UNCHANGED appVars
  /\ UNCHANGED simVars
  /\ UNCHANGED crwVars
  /\ UNCHANGED prepVars

\* the loops are over: `return all_dfs`, and __main__ keeps the location's
\* frame when the list is not empty
fetch_data_in_chunks_return ==
  /\ bulk.pc = "chunks"
  /\ bulk.year > args.end_year
  /\ bulk' = [bulk EXCEPT !.pc = "main", !.idx = @ + 1,
                          !.all_location_dfs =
                             IF bulk.all_dfs > 0 THEN @ + 1 ELSE @]
  /\ UNCHANGED << args, merge >>
  /\ UNCHANGED appVars
  /\ UNCHANGED simVars
  /\ UNCHANGED crwVars
  /\ UNCHANGED prepVars

\* __main__ has fetched its last location
main_finish ==
  /\ bulk.pc = "main"
  /\ bulk.idx > Len(LocationsOf(args.program))
  /\ bulk' = [bulk EXCEPT !.pc = "done"]
  /\ UNCHANGED << args, merge >>
  /\ UNCHANGED appVars
  /\ UNCHANGED simVars
  /\ UNCHANGED crwVars
  /\ UNCHANGED prepVars

\* the years the command line names
Years == 2024..(2023 + MaxYears)

\* a fetcher script's __main__ after parse_args: noaa_data_fetcher.py with
\* any --chunk-months, fetch_missing_data.py with the default
InitBulk ==
  /\ DashboardOff
  /\ CrwOff
  /\ PrepOff
  /\ \E s \in Years, e \in Years :
       \/ \E c \in 1..MaxChunkMonths :
            args = [ program |-> "noaa_data_fetcher", start_year |-> s,
                     end_year |-> e, chunk_months |-> c ]
       \/ args = [ program |-> "fetch_missing_data", start_year |-> s,
                   end_year |-> e, chunk_months |-> DefaultChunkMonths ]
  /\ bulk = [BulkOff EXCEPT !.pc = "main", !.idx = 1]
  /\ merge = MergeOff

NextBulk ==
  \/ fetch_data_in_chunks_call
  \/ chunk_request
  \/ fetch_data_in_chunks_return
  \/ main_finish

SpecBulk == InitBulk /\ [][NextBulk]_vars

\* ------------------------------------------------- merge and preprocessing
\* rank of a location_name in string order
NameRank ==
  [ Andaman_Islands |-> 1, Gulf_of_Kutch |-> 2, Gulf_of_Mannar |-> 3,
    Lakshadweep_Islands |-> 4 ]

\* a row of a fetcher script's output file: the nine columns of the answer
\* for the location's coordinates, and location_name
FetchedRow(loc, t, readings) ==
  WithColumns(LiveRow(loc.lat, loc.lon, t),
              WithColumns(readings, [location_name |-> loc.name]))

\* (location_name, time) of a row comes before that of another, or is equal
KeyNotAfter(a, b) ==
  \/ NameRank[a.location_name] < NameRank[b.location_name]
  \/ a.location_name = b.location_name /\ a.time <= b.time

\* insert row after the last row whose key is not greater (stable)
RECURSIVE InsertByNameAndTime(_, _)
InsertByNameAndTime(sorted, row) ==
  IF sorted = << >> THEN << row >>
  ELSE IF KeyNotAfter(Head(sorted), row)
       THEN << Head(sorted) >> \o InsertByNameAndTime(Tail(sorted), row)
       ELSE << row >> \o sorted

\* df.sort_values(['location_name', 'time'])
RECURSIVE SortByNameAndTime(_)
SortByNameAndTime(rows) ==
  IF rows = << >> THEN << >>
  ELSE InsertByNameAndTime(SortByNameAndTime(SubSeq(rows, 1, Len(rows) - 1)),
                           rows[Len(rows)])

\* df[df['location_name'] != name]
RECURSIVE ExcludeLocation(_, _)
ExcludeLocation(rows, name) ==
  IF rows = << >> THEN << >>
  ELSE IF Head(rows).location_name # name
       THEN << Head(rows) >> \o ExcludeLocation(Tail(rows), name)
       ELSE ExcludeLocation(Tail(rows), name)

\* merge_data with the filter left out
merge_dataUnfiltered(df_master, df_missing) ==
  IF IsNone(df_master) \/ IsNone(df_missing) THEN NoneValue
  ELSE DataFrame(SortByNameAndTime(df_master.rows \o df_missing.rows))

\* merge_data: the frame written to final_output_file, None when a file is
\* not found and nothing is written
merge_data(df_master, df_missing) ==
  IF IsNone(df_master) \/ IsNone(df_missing) THEN NoneValue
  ELSE DataFrame(SortByNameAndTime(
         ExcludeLocation(df_master.rows, "Gulf_of_Mannar") \o df_missing.rows))

\* the columns that hold numbers
NumericColumns(row) == DOMAIN row \ {"location_name"}

\* df.isnull() finds a cell
AnyMissing(rows) ==
  \E k \in 1..Len(rows) : \E c \in NumericColumns(rows[k]) : rows[k][c] = NaN

\* a missing cell takes the value of the same column in the row above
FilledFrom(above, row) ==
  [c \in DOMAIN row |->
     IF c \in NumericColumns(row) /\ row[c] = NaN THEN above[c] ELSE row[c]]

\* df.fillna(method='ffill')
RECURSIVE ForwardFill(_)
ForwardFill(rows) ==
  IF Len(rows) <= 1 THEN rows
  ELSE LET filled == ForwardFill(SubSeq(rows, 1, Len(rows) - 1))
       IN  Append(filled, FilledFrom(filled[Len(filled)], rows[Len(rows)]))

\* df.drop_duplicates(): the first of equal rows stays
RECURSIVE DropDuplicates(_)
DropDuplicates(rows) ==
  IF rows = << >> THEN << >>
  ELSE LET kept == DropDuplicates(SubSeq(rows, 1, Len(rows) - 1))
       IN  IF \E k \in 1..Len(kept) : kept[k] = rows[Len(rows)]
           THEN kept ELSE Append(kept, rows[Len(rows)])

\* data_preprocessor.py clean_data
clean_data(df) ==
  DataFrame(DropDuplicates(
    IF AnyMissing(df.rows) THEN ForwardFill(df.rows) ELSE df.rows))

\* merge_datasets.py: merge_data(original_file, missing_data_file, output)
merge_data_call ==
  /\ merge.pc = "call"
  /\ merge' = [merge EXCEPT !.pc = "done",
                 !.df_final = merge_data(merge.df_master, merge.df_missing)]
  /\ UNCHANGED << args, bulk >>
  /\ UNCHANGED appVars
  /\ UNCHANGED simVars
  /\ UNCHANGED crwVars
  /\ UNCHANGED prepVars

\* data_preprocessor.py line 97: raw_df = pd.read_csv(args.input_file), the
\* file merge_data wrote; exit() when there is no such file
read_csv_call ==
  /\ pp = "read_csv"
  /\ merge.pc = "done"
  /\ raw_df' = merge.df_final
  /\ pp' = IF IsNone(merge.df_final) THEN "exit" ELSE "clean_data"
  /\ UNCHANGED appVars
  /\ UNCHANGED simVars
  /\ UNCHANGED crwVars
  /\ UNCHANGED batchVars

\* data_preprocessor.py line 102: cleaned_df = clean_data(raw_df)
clean_data_call ==
  /\ pp = "clean_data"
  /\ raw_df' = clean_data(raw_df)
  /\ pp' = "feature_engineer"
  /\ UNCHANGED appVars
  /\ UNCHANGED simVars
  /\ UNCHANGED crwVars
  /\ UNCHANGED batchVars

\* the rows of one location in a fetched file: days 1 .. n, hotspot_c missing
\* on day gap (0: on no day)
LocationRows(loc, n, gap) ==
  [ t \in 1..n |->
      FetchedRow(loc, t, IF t = gap THEN [Readings(t) EXCEPT !.hotspot_c = NaN]
                         ELSE Readings(t)) ]

\* reef_locations in the order of their names
SortedLocations ==
  << reef_locations[1], reef_locations[4], reef_locations[3],
     reef_locations[2] >>

\* the master file noaa_data_fetcher.py writes, sorted by location_name and
\* time: n[k] days of the k-th location, a gap on day d of location g
RECURSIVE MasterRows(_, _, _, _)
MasterRows(k, n, g, d) ==
  IF k > Len(SortedLocations) THEN << >>
  ELSE LocationRows(SortedLocations[k], n[k], IF k = g THEN d ELSE 0)
         \o MasterRows(k + 1, n, g, d)

\* the three scripts in turn: merge_data is called with the master file and
\* the file fetch_missing_data.py wrote (either may be absent), then
\* data_preprocessor.py loads the merged file
InitPipeline ==
  /\ DashboardOff
  /\ CrwOff
  /\ args = NoArgs
  /\ bulk = BulkOff
  /\ raw_df = NoneValue
  /\ pp = "read_csv"
  /\ \E n \in [1..Len(SortedLocations) -> 0..MaxTimes],
        g \in 0..Len(SortedLocations), d \in 1..MaxTimes,
        m \in 0..MaxTimes, e \in 0..MaxTimes,
        absent \in {"none", "original_file", "missing_data_file"} :
       merge = [ pc |-> "call",
                 df_master |-> IF absent = "original_file" THEN NoneValue
                               ELSE DataFrame(MasterRows(1, n, g, d)),
                 df_missing |-> IF absent = "missing_data_file" THEN NoneValue
                                ELSE DataFrame(LocationRows(location_to_fetch, m, e)),
                 df_final |-> NoneValue ]

NextPipeline ==
  \/ merge_data_call
  \/ read_csv_call
  \/ clean_data_call
  \/ feature_engineer_call

SpecPipeline == InitPipeline /\ [][NextPipeline]_vars

\* ------------------------------------------------------------- properties
\* the current run of main() has a location and is past the decorator
PastLookup ==
  selected_location # Unset /\ pc \in {"get_live_data", "fallback", "tab1", "done"}

\* the current run of main() is over
RunOver == selected_location # Unset /\ pc = "done"

\* the get_live_data call of the current run asked the endpoints and is over
LiveCallOver ==
  selected_location # Unset /\ ~cache_hit /\ (returned # << >> \/ raised # "none")
    /\ requests # << >>

\* an exchange that is a timeout, another network or HTTP error, or a body
\* with the error marker or fewer than 100 characters
FailedExchange(ex) ==
  \/ ex.exc \in {"Timeout", "ConnectionError"}
  \/ ex.status >= 400
  \/ ex.marker
  \/ ex.length < 100

FailedOutcomes == {"RequestException", "invalid"}

RequestsTo(index) == {k \in 1..Len(requests) : requests[k].index = index}

LocationHistory == FilterLocation(historical_df, selected_location)

\* C1 (as claimed): when the endpoints were asked and none yielded live data,
\* and the location has historical rows, the assessment uses exactly one
\* historical row of that location, the one with the maximum time.
C1_FallbackUsesLatestHistoricalRow ==
  ( /\ RunOver
    /\ ~cache_hit
    /\ \A k \in 1..Len(requests) :
         ~(requests[k].outcome = "parsed" /\ requests[k].rows > 0)
    /\ LocationHistory # << >> )
  => /\ Len(live_df_raw.rows) = 1
     /\ \E k \in 1..Len(historical_df) : historical_df[k] = live_df_raw.rows[1]
     /\ live_df_raw.rows[1].location_name = selected_location
     /\ live_df_raw.rows[1].time = MaxTime(LocationHistory)
     /\ model_calls =
          << SelectFeatures(preprocess_live_data(live_df_raw).rows[1]) >>

\* C2 (as claimed): a failed live fetch (None or an empty frame) for a location
\* without historical rows ends the run in the explicit unavailable state: no
\* exception, no model call.
C2_NoDataEndsUnavailable ==
  ( /\ RunOver
    /\ returned # << >>
    /\ IsNone(returned[1]) \/ IsEmpty(returned[1])
    /\ LocationHistory = << >> )
  => /\ raised = "none"
     /\ model_calls = << >>
     /\ error_shown

\* C3 (as claimed): after a call that returned None, the next call for the same
\* location asks the endpoints again instead of being served the failure.
C3_FailuresAreNotCached ==
  ( /\ PastLookup
    /\ prev.location = selected_location
    /\ prev.returned = << NoneValue >>
    /\ prev.raised = "none" )
  => ~cache_hit

\* C4 (as claimed): two calls for one location within the TTL issue exactly one
\* request in total, the second none, and give identical results (stated for
\* a first call that fetched and returned, in runs that raised nothing).
C4_TwoCallsOneRoundTrip ==
  ( /\ RunOver
    /\ prev.location = selected_location
    /\ ~prev.hit
    /\ prev.returned # << >>
    /\ prev.raised = "none" /\ raised = "none"
    /\ started_at - prev.at < TTL )
  => /\ prev.requests + Len(requests) = 1
     /\ requests = << >>
     /\ model_calls = prev.model_calls

\* C4 (amended): when the first call fetched and returned (a row, an empty
\* frame or None), the second call within the TTL is a cache hit that issues no
\* request and returns the identical value, and the assessment built on it is
\* identical; the requests issued in total are those of the first call, one
\* per endpoint tried (1 or 2).
C4_SecondCallIsCacheHit ==
  ( /\ PastLookup
    /\ prev.location = selected_location
    /\ ~prev.hit
    /\ prev.returned # << >>
    /\ started_at - prev.at < TTL )
  => /\ cache_hit
     /\ requests = << >>
     /\ returned = prev.returned
     /\ prev.requests \in 1..Len(server_urls)
     /\ pc = "done" => /\ model_calls = prev.model_calls
                       /\ warning = prev.warning
                       /\ raised = prev.raised
                       /\ live_df_raw = prev.live_df_raw

C4_Witness ==
  /\ RunOver
  /\ cache_hit
  /\ prev.location = selected_location
  /\ ~prev.hit
  /\ prev.requests = 2
  /\ started_at - prev.at < TTL
  /\ started_at > prev.at
  /\ Len(model_calls) = 1
  /\ warning = << >>

RetriedThenParsed(k) ==
  /\ k \in 1..Len(script)
  /\ \A j \in 1..(k - 1) : FailedExchange(script[j])
  /\ ~FailedExchange(script[k])
  /\ script[k].columns = ExpectedColumns

C6_EndpointsInListOrder ==
  /\ Len(requests) <= Len(server_urls)
  /\ \A k \in 1..Len(requests) :
       /\ requests[k].index = k
       /\ k < Len(requests) => requests[k].outcome \in FailedOutcomes
  /\ (returned # << >> /\ ~cache_hit /\ ~IsNone(returned[1]))
       => requests[Len(requests)].outcome = "parsed"

C6_Witness ==
  /\ pc = "fallback"
  /\ Len(requests) = 2
  /\ requests[1].outcome = "RequestException"
  /\ requests[2].outcome = "parsed"
  /\ Len(returned[1].rows) = 1

\* C7 (as claimed): when the first endpoint's valid body holds zero data rows,
\* the call goes on to ask the second endpoint.
C7_EmptyResultTriesNextEndpoint ==
  ( /\ LiveCallOver
    /\ requests[1].outcome = "parsed"
    /\ requests[1].rows = 0 )
  => RequestsTo(2) # {}

\* C8: when every attempt of a call ended in a timeout, another network or
\* HTTP error, or an invalid body, no exception leaves the call and the value
\* it returns is None (get_live_data and both get_coral_reef_watch_data).
C8_AllAttemptsFailReturnsNone ==
  /\ (\A k \in 1..Len(requests) : requests[k].outcome \in FailedOutcomes)
       => /\ raised = "none"
          /\ returned # << >> => (cache_hit \/ returned = << NoneValue >>)
  /\ \A f \in Fetchers :
       (\A j \in 1..crw[f].requests : FailedExchange(Answer(j)))
         => /\ crw[f].pc # "raised"
            /\ crw[f].raised = "none"
            /\ crw[f].pc = "returned" => IsNone(crw[f].result)

C8_Witness ==
  /\ max_retries = 3
  /\ script[1] = TimeoutExchange
  /\ script[2] = HttpErrorExchange
  /\ script[3] = ShortBody
  /\ \A f \in Fetchers :
       /\ crw[f].pc = "returned"
       /\ crw[f].requests = 3
       /\ IsNone(crw[f].result)

\* C9 (as claimed): a body that passes the marker and length check but has not
\* nine columns raises nothing; the call goes on to the next endpoint.
C9_SchemaMismatchFallsThrough ==
  \A k \in 1..Len(requests) :
    requests[k].outcome = "ValueError"
      => /\ raised = "none"
         /\ pc # "done"

\* C10: one call issues at most one request per listed endpoint
\* (get_live_data) and at most max_retries requests
\* (get_coral_reef_watch_data), whatever the answers.
C10_RequestBound ==
  /\ \A e \in 1..Len(server_urls) : Cardinality(RequestsTo(e)) <= 1
  /\ Len(requests) <= Len(server_urls)
  /\ \A f \in Fetchers : crw[f].requests <= max_retries

C10_Witness ==
  /\ pc = "fallback"
  /\ returned = << NoneValue >>
  /\ Len(requests) = Len(server_urls)
  /\ requests[1].outcome = "RequestException"
  /\ requests[2].outcome = "invalid"

\* the body of an exchange carries the "ERROR" token or has fewer than 100
\* characters
Rejected(ex) ==
  ex.exc = "none" /\ ex.status < 400 /\ (ex.marker \/ ex.length < 100)

\* C11: a body with the "ERROR" token or fewer than 100 characters is never
\* parsed, whatever else it holds: in get_live_data the attempt is logged as
\* invalid with no rows, raises nothing, and when it was the last one the
\* call returns None; in both get_coral_reef_watch_data the call does not
\* raise on it, and a frame that a call returns holds the rows of an answer
\* that was not such a body.
C11_InvalidBodyNeverParsed ==
  /\ script # << >> =>
       \A k \in 1..Len(requests) :
         Rejected(script[k])
           => /\ requests[k].outcome = "invalid"
              /\ requests[k].rows = 0
              /\ k = Len(requests)
                   => /\ raised = "none"
                      /\ returned \in { << >>, << NoneValue >> }
  /\ \A f \in Fetchers :
       /\ \A j \in 1..crw[f].requests :
            (Rejected(Answer(j)) /\ j = crw[f].requests)
              => /\ crw[f].pc # "raised"
                 /\ IsNone(crw[f].result)
       /\ (crw[f].pc = "returned" /\ ~IsNone(crw[f].result))
            => /\ ~Rejected(Answer(crw[f].requests))
               /\ crw[f].result = DataFrame(Answer(crw[f].requests).rows)

C11_Witness ==
  /\ pc = "fallback"
  /\ script = << ErrorMarkerBody(REEF_LOCATIONS[selected_location].lat,
                                 REEF_LOCATIONS[selected_location].lon),
                 MarkerPage >>
  /\ Len(requests) = 2
  /\ returned = << NoneValue >>

\* get_live_data gave main no row: None or an empty frame
NoLiveRow == returned # << >> /\ (IsNone(returned[1]) \/ IsEmpty(returned[1]))

\* the run is between the fallback and its end, nothing raised
AssessmentUnderWay == pc \in {"tab1", "tab2", "tab3"} \/ model_calls # << >>

\* C12: in every run that assesses a row of the historical store, the stale
\* warning with that row's own time is out before the first prediction; a run
\* that assesses a row of a live fetch (fresh or cached) shows no warning.
C12_StaleRowAlwaysFlagged ==
  selected_location # Unset =>
    /\ (AssessmentUnderWay /\ NoLiveRow)
         => /\ Len(live_df_raw.rows) = 1
            /\ \E k \in 1..Len(historical_df) :
                 historical_df[k] = live_df_raw.rows[1]
            /\ warning = << live_df_raw.rows[1].time >>
    /\ (returned # << >> /\ ~NoLiveRow)
         => /\ warning = << >>
            /\ live_df_raw = returned[1]
    /\ warning # << >> => NoLiveRow

C12_Witness ==
  /\ RunOver
  /\ cache_hit
  /\ NoLiveRow
  /\ prev.warning # << >>
  /\ warning = << MaxTime(LocationHistory) >>
  /\ Len(model_calls) = 1

\* the feature row the live risk assessment passes to the model
BaselineFeatures == SelectFeatures(preprocess_live_data(live_df_raw).rows[1])

\* both sliders stand at the baseline row's values
NoOverride ==
  /\ sim_sst = << live_df_raw.rows[1].sea_surface_temp_c >>
  /\ sim_dhw = << live_df_raw.rows[1].degree_heating_week_c_weeks >>

\* C13: with both sliders at the baseline values, the feature row the
\* simulator passes to the model is the one the live risk assessment passed
\* for the same baseline row: one call each, the same ten values.
C13_NoOverrideSamePrediction ==
  (sim_calls # << >> /\ NoOverride)
    => /\ Len(sim_calls) = 1
       /\ sim_calls = model_calls
       /\ DOMAIN sim_calls[1] = features_for_model

C13_Witness ==
  /\ pc = "done"
  /\ warning # << >>
  /\ sim_calls # << >>
  /\ NoOverride
  /\ sim_calls = << BaselineFeatures >>

\* C14: whatever the two slider values, the simulator's feature row equals
\* the baseline feature row in hotspot_c, sst_anomaly_c, both alert areas and
\* the four calendar features; only sea_surface_temp_c and
\* degree_heating_week_c_weeks can differ.
C14_OnlyTwoFeaturesOverridden ==
  \A k \in 1..Len(sim_calls) :
    \A c \in features_for_model \ {"sea_surface_temp_c",
                                     "degree_heating_week_c_weeks"} :
      /\ sim_calls[k][c] = BaselineFeatures[c]
      /\ sim_calls[k][c] = model_calls[1][c]

C14_Witness ==
  /\ pc = "done"
  /\ sim_calls # << >>
  /\ sim_calls[1].sea_surface_temp_c # BaselineFeatures.sea_surface_temp_c
  /\ sim_calls[1].degree_heating_week_c_weeks
       # BaselineFeatures.degree_heating_week_c_weeks
  /\ sim_calls[1].hotspot_c > 0

CalendarNames == {"year", "month", "day_of_year", "week_of_year"}

\* both normalizers have run
BothNormalized == pp = "apply_heuristic_labels" /\ model_calls # << >>

\* C15: for a historical row and a live row of the same time,
\* feature_engineer and preprocess_live_data derive the same year, month,
\* day_of_year and ISO week_of_year, whatever the place and the readings of
\* the two rows, and whatever the simulator's overrides.
C15_SameCalendarFields ==
  BothNormalized =>
    \A k \in 1..Len(raw_df.rows) :
      raw_df.rows[k].time = live_df_raw.rows[1].time
        => \A c \in CalendarNames :
             /\ raw_df.rows[k][c] = model_calls[1][c]
             /\ \A j \in 1..Len(sim_calls) : raw_df.rows[k][c] = sim_calls[j][c]

C15_Witness ==
  /\ BothNormalized
  /\ sim_calls # << >>
  /\ selected_location # raw_df.rows[1].location_name
  /\ raw_df.rows[1].sea_surface_temp_c # live_df_raw.rows[1].sea_surface_temp_c
  /\ raw_df.rows[1].week_of_year = 53
  /\ raw_df.rows[1].month = 1
  /\ model_calls[1].year = 2027

RequiredReadings ==
  { "sea_surface_temp_c", "hotspot_c", "degree_heating_week_c_weeks",
    "sst_anomaly_c", "bleaching_alert_area", "bleaching_alert_area_7d_max" }

\* C16 (as claimed): no feature row passed to model.predict, by the live
\* assessment or by the simulator, has a missing required reading.
C16_MissingFeatureNeverPredicted ==
  /\ \A k \in 1..Len(model_calls) :
       \A c \in RequiredReadings : model_calls[k][c] # NaN
  /\ \A k \in 1..Len(sim_calls) :
       \A c \in RequiredReadings : sim_calls[k][c] # NaN

\* a timeout or a connection error: a transient network error
Transient(ex) == ex.exc \in {"Timeout", "ConnectionError"}

\* C17 (as claimed): in a call of get_coral_reef_watch_data
\* (noaa_data_fetcher.py), a body with the error marker or below the minimum
\* length is the last request of the call, while a transient network error
\* with attempts left is followed by another request.
C17_NoDataSignalNotRetried ==
  LET c == crw["noaa_data_fetcher"]
  IN  \A j \in 1..c.requests :
        /\ Rejected(Answer(j)) => j = c.requests
        /\ (Transient(Answer(j)) /\ j < max_retries)
             => (c.requests > j \/ c.pc = "loop")

RECURSIVE Sum(_)
Sum(seq) == IF seq = << >> THEN 0 ELSE Head(seq) + Sum(Tail(seq))

SleepsAllowed == IF max_retries >= 1 THEN max_retries - 1 ELSE 0

SelectedEntry == cache[REEF_LOCATIONS[selected_location]]

\* C19: a call is served from the cache only when the location has an entry
\* that is not older than 3600 seconds; a call that finds no entry, or an
\* older one, runs the function, which issues requests to the endpoints,
\* and the entry left behind is the value that call returned, stored at the
\* time of that call.
C19_ExpiredEntryRefetched ==
  PastLookup =>
    /\ cache_hit
         => /\ SelectedEntry.present
            /\ started_at - SelectedEntry.stored_at <= 3600
            /\ returned = << SelectedEntry.value >>
            /\ requests = << >>
    /\ (~cache_hit /\ pc = "get_live_data")
         => \/ ~SelectedEntry.present
            \/ started_at - SelectedEntry.stored_at >= 3600
    /\ (~cache_hit /\ returned # << >>)
         => /\ requests # << >>
            /\ SelectedEntry =
                 [present |-> TRUE, value |-> returned[1], stored_at |-> started_at]

C19_Witness ==
  /\ RunOver
  /\ prev.location = selected_location
  /\ ~prev.hit
  /\ prev.returned # << >>
  /\ started_at - prev.at > 3600
  /\ ~cache_hit
  /\ requests # << >>
  /\ returned # << >>
  /\ returned # prev.returned
  /\ SelectedEntry.stored_at = started_at

\* the scripted answer to the last request of the get_live_data call
LastAnswer == script[Len(requests)]

\* C20: when the call returns on an endpoint's response that holds data
\* rows, it returns exactly one row, a row of that response, and no row of the
\* response has a greater time, wherever in the body that row stands.
C20_LatestRowReturned ==
  ( /\ script # << >>
    /\ returned # << >>
    /\ requests # << >>
    /\ requests[Len(requests)].outcome = "parsed"
    /\ LastAnswer.rows # << >> )
  => /\ ~IsNone(returned[1])
     /\ Len(returned[1].rows) = 1
     /\ \E k \in 1..Len(LastAnswer.rows) :
          LastAnswer.rows[k] = returned[1].rows[1]
     /\ returned[1].rows[1].time = MaxTime(LastAnswer.rows)

C20_Witness ==
  /\ pc = "done"
  /\ script # << >>
  /\ Len(requests) = 2
  /\ Len(LastAnswer.rows) = 3
  /\ LastAnswer.rows[2].time = MaxTime(LastAnswer.rows)
  /\ returned[1].rows = << LastAnswer.rows[2] >>

\* the call of get_coral_reef_watch_data in noaa_data_fetcher.py
NoaaCall == crw["noaa_data_fetcher"]

\* C21: in get_coral_reef_watch_data (noaa_data_fetcher.py) every attempt
\* that is followed by another one is followed by one wait: 5 seconds after
\* a body with the error marker or below the minimum length, 10 seconds after
\* a timeout, 10 seconds after any other request exception; the attempt that
\* ends the call (a success, or the final failure) is followed by no wait.
C21_DelayByFailureKind ==
  NoaaCall.pc # "off" =>
    /\ Len(NoaaCall.slept) =
         IF NoaaCall.pc = "loop" \/ NoaaCall.requests = 0
         THEN NoaaCall.requests ELSE NoaaCall.requests - 1
    /\ \A j \in 1..Len(NoaaCall.slept) :
         /\ j < max_retries
         /\ Rejected(Answer(j)) => NoaaCall.slept[j] = 5
         /\ Answer(j).exc = "Timeout" => NoaaCall.slept[j] = 10
         /\ (Answer(j).exc = "ConnectionError" \/ Answer(j).status >= 400)
              => NoaaCall.slept[j] = 10

C21_Witness ==
  /\ max_retries = 3
  /\ script[1] = ShortBody
  /\ script[2] = TimeoutExchange
  /\ script[3] = DataBody(880, 7825)
  /\ NoaaCall.pc = "returned"
  /\ NoaaCall.slept = << 5, 10 >>
  /\ ~IsNone(NoaaCall.result)

\* the call of get_coral_reef_watch_data in fetch_missing_data.py
MissingCall == crw["fetch_missing_data"]

\* a call of get_coral_reef_watch_data has returned or raised
CallOver(c) == c.pc \in {"returned", "raised"}

\* C22: the two copies of get_coral_reef_watch_data are the same function:
\* given the same max_retries and the same sequence of attempt outcomes they
\* have slept the same durations whenever they have issued the same number
\* of requests, and they end after the same number of requests in the same
\* way with the same result, which is the parsed rows of the first
\* successful attempt or None.
C22_CopiesEquivalent ==
  /\ (NoaaCall.pc # "off" /\ MissingCall.pc # "off"
       /\ NoaaCall.requests = MissingCall.requests)
        => NoaaCall.slept = MissingCall.slept
  /\ (CallOver(NoaaCall) /\ CallOver(MissingCall)) =>
        /\ NoaaCall.pc = MissingCall.pc
        /\ NoaaCall.requests = MissingCall.requests
        /\ NoaaCall.result = MissingCall.result
        /\ NoaaCall.raised = MissingCall.raised
        /\ (NoaaCall.pc = "returned" /\ ~IsNone(NoaaCall.result)) =>
              /\ ResponseOutcome(Answer(NoaaCall.requests)).kind = "parsed"
              /\ NoaaCall.result =
                   DataFrame(ResponseOutcome(Answer(NoaaCall.requests)).rows)
              /\ \A j \in 1..(NoaaCall.requests - 1) :
                   ResponseOutcome(Answer(j)).kind # "parsed"

C22_Witness ==
  /\ max_retries = 3
  /\ script[1] = ConnectionErrorExchange
  /\ script[2] = ErrorMarkerBody(880, 7825)
  /\ script[3] = DataBody(880, 7825)
  /\ CallOver(NoaaCall) /\ CallOver(MissingCall)
  /\ MissingCall.requests = 3
  /\ MissingCall.slept = << 10, 5 >>
  /\ ~IsNone(MissingCall.result)

\* days of the years first .. y - 1
RECURSIVE DaysBeforeYear(_, _)
DaysBeforeYear(first, y) ==
  IF y <= first THEN 0 ELSE DaysInYear(y - 1) + DaysBeforeYear(first, y - 1)

\* days of the months 1 .. m - 1 of year y
RECURSIVE DaysBeforeMonth(_, _)
DaysBeforeMonth(y, m) ==
  IF m <= 1 THEN 0 ELSE DaysInMonth(y, m - 1) + DaysBeforeMonth(y, m - 1)

\* the calendar day a date names, counted from January 1 of 2024 as day 1
DayOf(date) ==
  DaysBeforeYear(2024, date.year) + DaysBeforeMonth(date.year, date.month)
    + date.day

\* a date names a day of the calendar
IsCalendarDate(date) ==
  /\ date.month \in 1..12
  /\ date.day \in 1..DaysInMonth(date.year, date.month)

\* a fetch_data_in_chunks call has returned to __main__
ChunksReturned == bulk.pc \in {"main", "done"} /\ bulk.idx > 1

\* first and last day of each window of the current or last
\* fetch_data_in_chunks call
WindowDays ==
  [ k \in 1..Len(bulk.windows) |->
      [ first |-> DayOf(bulk.windows[k].start_date),
        last  |-> DayOf(bulk.windows[k].end_date) ] ]

\* every day of first .. last lies in exactly one of the spans
CoveredOnce(spans, first, last) ==
  \A day \in first..last :
    Cardinality({ k \in DOMAIN spans :
                   spans[k].first <= day /\ day <= spans[k].last }) = 1

\* C23: for start_year <= end_year and every chunk_months the windows that
\* fetch_data_in_chunks requests name calendar dates, each has start_date <=
\* end_date within one year, they are issued in chronological order without
\* overlap, and once the call has returned every day from January 1 of
\* start_year to December 31 of end_year lies in exactly one window.
C23_WindowsPartitionYears ==
  (bulk.pc # "off" /\ args.start_year <= args.end_year) =>
    /\ \A k \in 1..Len(bulk.windows) :
         LET w == bulk.windows[k]
         IN  /\ IsCalendarDate(w.start_date) /\ IsCalendarDate(w.end_date)
             /\ DayOf(w.start_date) <= DayOf(w.end_date)
             /\ w.start_date.year = w.end_date.year
             /\ k > 1 => DayOf(bulk.windows[k - 1].end_date) < DayOf(w.start_date)
    /\ ChunksReturned =>
         CoveredOnce(WindowDays, DayOf(Date(args.start_year, 1, 1)),
                     DayOf(Date(args.end_year, 12, 31)))

C23_Witness ==
  /\ args.start_year = 2024
  /\ args.end_year = 2025
  /\ args.chunk_months = 5
  /\ ChunksReturned
  /\ Len(bulk.windows) = 6
  /\ bulk.windows[1].end_date = Date(2024, 5, 31)
  /\ bulk.windows[3] = [start_date |-> Date(2024, 11, 1),
                        end_date |-> Date(2024, 12, 31)]
  /\ bulk.windows[4].start_date = Date(2025, 1, 1)

\* noaa_data_fetcher.py's __main__ has fetched every location
BulkRunOver ==
  /\ args.program = "noaa_data_fetcher"
  /\ args.start_year <= args.end_year
  /\ bulk.pc = "done"

\* C24: the "Estimated total requests" figure that noaa_data_fetcher.py
\* prints equals the number of get_coral_reef_watch_data calls that
\* fetch_data_in_chunks makes over all locations, for every chunk_months.
C24_EstimateEqualsCalls ==
  BulkRunOver => bulk.calls = total_requests

\* how many rows of a frame equal row
Count(rows, row) == Cardinality({ k \in 1..Len(rows) : rows[k] = row })

\* the rows of a frame, as a set
RowSet(rows) == { rows[k] : k \in 1..Len(rows) }

\* merge_data has read both files and written the merged one
Merged == merge.pc = "done" /\ ~IsNone(merge.df_final)

\* C25: the file merge_data writes holds no Gulf_of_Mannar row of the
\* original master file, every other row of the original file exactly as
\* often as the original holds it, every row of the newly fetched file
\* exactly as often as that file holds it and no other row, and it is
\* ordered by location_name and then time, so time never decreases within
\* a location.
C25_MergeReplacesOneLocation ==
  Merged =>
    LET master  == merge.df_master.rows
        missing == merge.df_missing.rows
        final   == merge.df_final.rows
    IN  /\ \A r \in RowSet(master) :
             IF r.location_name = "Gulf_of_Mannar"
             THEN r \notin RowSet(final)
             ELSE Count(final, r) = Count(master, r)
        /\ \A r \in RowSet(missing) : Count(final, r) = Count(missing, r)
        /\ RowSet(final) \subseteq RowSet(master) \cup RowSet(missing)
        /\ \A k \in 1..(Len(final) - 1) :
             /\ NameRank[final[k].location_name]
                  <= NameRank[final[k + 1].location_name]
             /\ final[k].location_name = final[k + 1].location_name
                  => final[k].time <= final[k + 1].time

C25_Witness ==
  /\ Merged
  /\ \E r \in RowSet(merge.df_master.rows) :
       r.location_name = "Gulf_of_Mannar"
  /\ Len(merge.df_missing.rows) = 2
  /\ Len(merge.df_final.rows) = 5
  /\ merge.df_final.rows[1].location_name = "Andaman_Islands"
  /\ merge.df_final.rows[2].location_name = "Gulf_of_Kutch"
  /\ merge.df_final.rows[3] = merge.df_missing.rows[1]
  /\ merge.df_final.rows[4] = merge.df_missing.rows[2]
  /\ merge.df_final.rows[5].location_name = "Lakshadweep_Islands"

\* clean_data has just returned the frame read from the merged file
Cleaned == pp = "feature_engineer" /\ Merged

\* rows[k][c] is the latest value of column c that is present in a row above
\* row k with the same location_name, and value is that value
LatestOfLocation(rows, k, c, value) ==
  \E j \in 1..(k - 1) :
    /\ rows[j].location_name = rows[k].location_name
    /\ rows[j][c] # NaN
    /\ rows[j][c] = value
    /\ \A h \in (j + 1)..(k - 1) :
         rows[h].location_name = rows[k].location_name => rows[h][c] = NaN

\* C28: after clean_data no cell is missing, and every cell that was missing
\* holds the most recent earlier value of the same location_name: the
\* forward fill copies no value across a location boundary, the first row
\* of the file and of each location included.
C28_ForwardFillWithinLocation ==
  (Cleaned /\ Len(raw_df.rows) = Len(merge.df_final.rows)) =>
    \A k \in 1..Len(raw_df.rows) :
      \A c \in NumericColumns(raw_df.rows[k]) :
        /\ raw_df.rows[k][c] # NaN
        /\ merge.df_final.rows[k][c] = NaN
             => LatestOfLocation(merge.df_final.rows, k, c, raw_df.rows[k][c])

\* every row of a frame is a row of the grid point of entry
RowsAt(df, entry) ==
  IsNone(df) \/ \A k \in 1..Len(df.rows) :
                  /\ df.rows[k].latitude = entry.lat
                  /\ df.rows[k].longitude = entry.lon

\* the run has asked an endpoint, got a value, shown a warning or predicted
LocationUsed ==
  \/ pc \in {"get_live_data", "fallback", "tab1", "tab2"}
  \/ requests # << >> \/ returned # << >> \/ warning # << >>
  \/ model_calls # << >> \/ sim_calls # << >>

\* C26: selected_location is unset or a key of REEF_LOCATIONS whatever popup
\* texts the clicks delivered; a run that fetches, falls back or predicts has
\* a key selected; the rows get_live_data returned and the rows the cache
\* holds under a key are rows of that entry's coordinates, and a fallback row
\* is a row of the selected location.
C26_LocationAlwaysFromTable ==
  /\ selected_location \in LocationNames \cup {Unset}
  /\ LocationUsed => selected_location \in LocationNames
  /\ \A key \in CacheKeys : RowsAt(cache[key].value, key)
  /\ selected_location \in LocationNames =>
       /\ returned # << >> =>
            RowsAt(returned[1], REEF_LOCATIONS[selected_location])
       /\ RowsAt(live_df_raw, REEF_LOCATIONS[selected_location])
       /\ warning # << >> =>
            live_df_raw.rows[1].location_name = selected_location

C26_Witness ==
  /\ runs = 2
  /\ prev.location = "Andaman_Islands"
  /\ selected_location = "Gulf_of_Mannar"
  /\ ~cache_hit
  /\ returned # << >>
  /\ ~NoLiveRow
  /\ live_df_raw.rows[1].latitude = 880
  /\ live_df_raw.rows[1].longitude = 7825
  /\ model_calls # << >>

\* the row the run took as its baseline: the row get_live_data returned, or
\* the latest row of the selected location in the historical store
BaselineTaken ==
  IF NoLiveRow
  THEN DataFrame(LatestRow(FilterLocation(historical_df, selected_location)))
  ELSE returned[1]

\* C27: inference never modifies the baseline row: once the live assessment
\* or a what-if simulation has passed a row to the model, live_df_raw still
\* holds the columns and values it had when it was fetched or selected as
\* fallback, whatever the sliders were set to.
C27_BaselineNeverModified ==
  (returned # << >> /\ (model_calls # << >> \/ sim_calls # << >>))
    => live_df_raw = BaselineTaken

C27_Witness ==
  /\ returned # << >>
  /\ model_calls # << >>
  /\ sim_calls # << >>
  /\ sim_sst # << live_df_raw.rows[1].sea_surface_temp_c >>
  /\ sim_dhw # << live_df_raw.rows[1].degree_heating_week_c_weeks >>
  /\ live_df_raw = BaselineTaken
  /\ "year" \notin DOMAIN live_df_raw.rows[1]

====
